---- MODULE Spec2Model ----
(***************************************************************************)
(* Model of drizzle-chronicle's Chronicle class (src/core/chronicle.ts):   *)
(* a registry of versioned tables, a live SQLite table and its history     *)
(* table, and the public operations registerTable, insert, update, delete, *)
(* getVersions, getVersion and rollback.                                   *)
(*                                                                         *)
(* The live table is the one the unit tests create,                        *)
(*   CREATE TABLE test_table (id INTEGER PRIMARY KEY, name TEXT NOT NULL), *)
(* reduced to its key column and one NOT NULL data column.  The store is   *)
(* modelled by what the SQL statements issued by the code do on SQLite.    *)
(* The column version_created_at (a wall-clock default) is not modelled.   *)
(***************************************************************************)
EXTENDS Integers, FiniteSets, Sequences, TLC

\* ------------------------------------------------------------------ bounds
\* Largest number of rows the history table may hold in the model.
MaxHist == 3

\* ------------------------------------------------------------ value domains
Ids == {1, 2}
Names == {"a", "b"}
Cols == {"id", "name"}
TableName == "test_table"

\* SQL NULL of each column (history columns are nullable, live ones are not)
NullId == 0
NullName == "NULL"
Null(c) == IF c = "id" THEN NullId ELSE NullName

ColValues(c) == IF c = "id" THEN Ids ELSE Names

\* A value map / predicate as the caller passes it: a JS object whose keys
\* are a subset of the columns.
mkMap(idv, namev) ==
    [c \in {x \in Cols : IF x = "id" THEN idv # NullId ELSE namev # NullName} |->
        IF c = "id" THEN idv ELSE namev]
ValueMaps == {mkMap(i, n) : i \in Ids \cup {NullId}, n \in Names \cup {NullName}}
Predicates == ValueMaps
EmptyMap == mkMap(NullId, NullName)

VersionOperation == {"INSERT", "UPDATE", "DELETE"}
VersionIds == 1..(MaxHist + 1)

\* Chronicle.config.historyTableSuffix: the default and a custom one
DefaultSuffix == "_history"
Suffixes == {DefaultSuffix, "_archive"}

\* Table descriptors: the columns of a drizzle-orm table object, each with
\* the name, dataType and columnType it exposes. testTable is the schema of
\* the unit tests, users a schema with other columns.
testTable ==
    << [name |-> "id", dataType |-> "number", columnType |-> "SQLiteInteger"],
       [name |-> "name", dataType |-> "string", columnType |-> "SQLiteText"] >>
users ==
    << [name |-> "id", dataType |-> "number", columnType |-> "SQLiteInteger"],
       [name |-> "name", dataType |-> "string", columnType |-> "SQLiteText"],
       [name |-> "email", dataType |-> "string", columnType |-> "SQLiteText"] >>
Descriptors == {testTable, users}

\* A property an object does not have reads as undefined.
Undefined == "undefined"
field(column, f) == IF f \in DOMAIN column THEN column[f] ELSE Undefined

\* Column objects as createHistoryTable reads them: { name, dataType?,
\* columnType? }, each property present or not; "number" and "SQLiteCustom"
\* stand for the values the type mapping does not test for.
DataTypes == {"integer", "real", "text", "blob", "number", Undefined}
ColumnTypes ==
    {"SQLiteInteger", "SQLiteReal", "SQLiteText", "SQLiteBlob", "SQLiteCustom",
     Undefined}
mkColumn(name, dataType, columnType) ==
    [f \in {x \in {"name", "dataType", "columnType"} :
                field([name |-> name, dataType |-> dataType,
                       columnType |-> columnType], x) # Undefined} |->
        field([name |-> name, dataType |-> dataType, columnType |-> columnType], f)]
ColumnObjects ==
    {mkColumn(n, dt, ct) : n \in {"name", Undefined}, dt \in DataTypes,
                           ct \in ColumnTypes}

\* the tables registered to derive a schema: the id column of testTable
\* followed by any column object
SchemaDescriptors == {<<testTable[1], column>> : column \in ColumnObjects}

VARIABLES
    versionedTables,          \* Chronicle.versionedTables: name -> binding
    otherVersionedTables,     \* versionedTables of a second Chronicle instance
                              \* constructed over the same store
    historyTableSuffix,       \* Chronicle.config.historyTableSuffix
    autoCreateHistoryTables,  \* Chronicle.config.autoCreateHistoryTables
    live,                     \* rows of the live table
    historyTables,            \* names of the history tables in the store
    historyColumns,           \* column definitions of the history table
    history,                  \* rows of the history table
    seq,                      \* sqlite_sequence entry of the history table
    last,                     \* the call made by the last step and its outcome
    inFlight,                 \* the calls started and not yet settled, each
                              \* with the statement it executes next
    trace                     \* the calls started and the statements they
                              \* ran on the store, in execution order

vars == <<versionedTables, otherVersionedTables, historyTableSuffix,
          autoCreateHistoryTables, live, historyTables, historyColumns, history,
          seq, last, inFlight, trace>>

\* The two engine instances; both are constructed with the same config.
Instances == {1, 2}

\* (variant: one registry shared by every instance)
versionedTablesShared(instance) == versionedTables

\* this.versionedTables: each instance has its own map
versionedTablesOf(instance) ==
    IF instance = 1 THEN versionedTables ELSE otherVersionedTables

db == [live |-> live, history |-> history, seq |-> seq]

\* (variant: the configured suffix is ignored)
historyTableNameFixed(tableName) == tableName \o "_history"

\* `${tableName}${this.config.historyTableSuffix}`, as registerTable,
\* createHistoryTable, recordVersion, getVersions and getVersion compute it
historyTableName(tableName) == tableName \o historyTableSuffix

\* the statement on the history table finds its table
historyExists == historyTableName(TableName) \in historyTables

\* createHistoryTable's mapping of a column to an SQLite type
\* (variant: the column type is tested before the data type)
sqliteTypeColumnTypeFirst(column) ==
    IF field(column, "columnType") = "SQLiteInteger" THEN "INTEGER"
    ELSE IF field(column, "columnType") = "SQLiteReal" THEN "REAL"
    ELSE IF field(column, "columnType") = "SQLiteText" THEN "TEXT"
    ELSE IF field(column, "columnType") = "SQLiteBlob" THEN "BLOB"
    ELSE IF field(column, "dataType") = "integer" THEN "INTEGER"
    ELSE IF field(column, "dataType") = "real" THEN "REAL"
    ELSE IF field(column, "dataType") = "blob" THEN "BLOB"
    ELSE "TEXT"

\* createHistoryTable's mapping of a column to an SQLite type
sqliteType(column) ==
    IF field(column, "dataType") = "integer"
            \/ field(column, "columnType") = "SQLiteInteger"
        THEN "INTEGER"
    ELSE IF field(column, "dataType") = "real"
            \/ field(column, "columnType") = "SQLiteReal"
        THEN "REAL"
    ELSE IF field(column, "dataType") = "text"
            \/ field(column, "columnType") = "SQLiteText"
        THEN "TEXT"
    ELSE IF field(column, "dataType") = "blob"
            \/ field(column, "columnType") = "SQLiteBlob"
        THEN "BLOB"
    ELSE "TEXT"

\* "name" in value
hasName(column) == "name" \in DOMAIN column

\* Object.keys(table).filter(...): the entries that are objects with a name
columns(table) == SelectSeq(table, hasName)

\* the entry for which columnDefs throws `Invalid column definition`
invalidColumn(table) ==
    \E i \in DOMAIN columns(table) : ~hasName(columns(table)[i])

\* columnDefs: `${columnName} ${sqliteType}` for each column, in order
columnDefs(table) ==
    [i \in DOMAIN columns(table) |->
        [name |-> columns(table)[i].name, type |-> sqliteType(columns(table)[i])]]

\* the columns of CREATE TABLE ... (version_id ..., version_created_at ...,
\* version_operation ..., columnDefs)
historySchema(table) ==
    << [name |-> "version_id", type |-> "INTEGER"],
       [name |-> "version_created_at", type |-> "TEXT"],
       [name |-> "version_operation", type |-> "TEXT"] >> \o columnDefs(table)

\* the history part of the store
historyStore ==
    [tables |-> historyTables, columns |-> historyColumns,
     rows |-> history, seq |-> seq]

\* (variant: DROP TABLE IF EXISTS before CREATE TABLE)
createHistoryTableAnew(hs, table) ==
    [tables |-> hs.tables \cup {historyTableName(TableName)},
     columns |-> historySchema(table), rows |-> {}, seq |-> 0]

\* Chronicle.createHistoryTable: CREATE TABLE IF NOT EXISTS leaves an
\* existing table, its columns and its rows as they are
createHistoryTable(hs, table) ==
    IF invalidColumn(table) \/ columnDefs(table) = <<>> THEN hs
    ELSE IF historyTableName(TableName) \in hs.tables THEN hs
    ELSE [hs EXCEPT !.tables = @ \cup {historyTableName(TableName)},
                    !.columns = historySchema(table)]

\* ------------------------------------------------------------------- store
Max(S) == CHOOSE x \in S : \A y \in S : y <= x
Min(S) == CHOOSE x \in S : \A y \in S : x <= y

\* (variant: the constraints joined by OR)
MatchesAny(row, where) == \E c \in DOMAIN where : row[c] = where[c]

\* WHERE c1 = ? AND c2 = ? ... over one row
Matches(row, where) == \A c \in DOMAIN where : row[c] = where[c]

\* SELECT * FROM live WHERE ... : all matching rows
liveSelect(l, where) == {r \in l : Matches(r, where)}

\* .get(): the first row of the scan, i.e. the one with the least rowid
firstRow(rows) == CHOOSE r \in rows : r.id = Min({x.id : x \in rows})

\* the rowid SQLite gives a row inserted without id
nextRowid(l) == IF l = {} THEN 1 ELSE Max({r.id : r \in l}) + 1

\* { ...current, ...values }
merge(current, values) ==
    [c \in DOMAIN current \cup DOMAIN values |->
        IF c \in DOMAIN values THEN values[c] ELSE current[c]]


\* INSERT INTO live (cols) VALUES (?...): the statement is rejected when no
\* column is named (syntax error), a column is unknown, name is missing
\* (NOT NULL) or the id is taken (PRIMARY KEY).
liveInsertOk(l, values) ==
    /\ DOMAIN values # {}
    /\ DOMAIN values \subseteq Cols
    /\ "name" \in DOMAIN values /\ values["name"] # NullName
    /\ "id" \in DOMAIN values => /\ values["id"] # NullId
                                 /\ \A r \in l : r.id # values["id"]

liveInsert(l, values) ==
    l \cup {[id |-> IF "id" \in DOMAIN values THEN values["id"] ELSE nextRowid(l),
             name |-> values["name"]]}

\* (variant: UPDATE without its WHERE clause)
liveUpdatedAll(l, values, where) ==
    {[id |-> merge(r, values)["id"], name |-> merge(r, values)["name"]] : r \in l}

\* the live table after UPDATE live SET ... WHERE ... (before constraints)
liveUpdated(l, values, where) ==
    {IF Matches(r, where)
        THEN [id |-> merge(r, values)["id"], name |-> merge(r, values)["name"]]
        ELSE r : r \in l}

\* UPDATE is rejected when SET is empty (syntax error), a column is
\* unknown, id is set to NULL (datatype mismatch), name is set to NULL
\* (NOT NULL) or two rows end with the same id (PRIMARY KEY); a rejected
\* statement changes no row.
liveUpdateOk(l, values, where) ==
    /\ DOMAIN values # {}
    /\ DOMAIN values \subseteq Cols
    /\ liveSelect(l, where) # {} =>
        /\ \A c \in DOMAIN values : values[c] # Null(c)
        /\ Cardinality(liveUpdated(l, values, where)) = Cardinality(l)
        /\ \A r1, r2 \in liveUpdated(l, values, where) : r1.id = r2.id => r1 = r2

\* DELETE FROM live WHERE ...
liveDelete(l, where) == {r \in l : ~Matches(r, where)}

\* ---------------------------------------------------------- history store
\* (variant: version_id declared without PRIMARY KEY AUTOINCREMENT stays NULL)
nextVersionIdNull(h, s) == NullId

\* the version_id AUTOINCREMENT assigns
nextVersionId(h, s) == Max({s} \cup {v.version_id : v \in h}) + 1

\* the row INSERT INTO history (version_operation, cols) VALUES (...) adds:
\* columns the statement does not name are NULL
versionRow(vid, values, operation) ==
    [version_id |-> vid,
     version_operation |-> operation,
     id |-> IF "id" \in DOMAIN values THEN values["id"] ELSE NullId,
     name |-> IF "name" \in DOMAIN values THEN values["name"] ELSE NullName]

\* INSERT INTO history is rejected when the table does not exist, a column
\* is unknown or version_operation fails its CHECK
historyInsertOk(values, operation) ==
    /\ historyExists
    /\ DOMAIN values \subseteq {historyColumns[i].name : i \in DOMAIN historyColumns}
    /\ operation \in VersionOperation

\* ------------------------------------------------------------------ engine
\* The outcome of a call: the store it leaves and how it returned
\* ("ok", or the error it threw).
Outcome(d, result) == [db |-> d, result |-> result]

registered == TableName \in DOMAIN versionedTables

\* (variant: an error of the history INSERT is swallowed)
recordVersionSilent(d, values, operation) ==
    IF ~historyInsertOk(values, operation)
    THEN Outcome(d, "ok")
    ELSE Outcome([d EXCEPT
            !.history = @ \cup
                {versionRow(nextVersionId(d.history, d.seq), values, operation)},
            !.seq = nextVersionId(d.history, d.seq)], "ok")

\* Chronicle.recordVersion
recordVersion(d, values, operation) ==
    IF ~historyInsertOk(values, operation)
    THEN Outcome(d, "StoreError")
    ELSE Outcome([d EXCEPT
            !.history = @ \cup
                {versionRow(nextVersionId(d.history, d.seq), values, operation)},
            !.seq = nextVersionId(d.history, d.seq)], "ok")

\* Chronicle.insert, on the engine instance whose versionedTables is tables
insertOn(tables, d, values) ==
    IF TableName \notin DOMAIN tables THEN Outcome(d, "NotRegisteredError")
    ELSE IF ~liveInsertOk(d.live, values) THEN Outcome(d, "StoreError")
    ELSE recordVersion([d EXCEPT !.live = liveInsert(@, values)], values, "INSERT")

\* (variant: the version is recorded before the live INSERT runs)
insertRecordingFirst(d, values) ==
    IF ~registered THEN Outcome(d, "NotRegisteredError")
    ELSE LET o == recordVersion(d, values, "INSERT")
         IN  IF o.result # "ok" THEN o
             ELSE IF ~liveInsertOk(d.live, values) THEN Outcome(o.db, "StoreError")
             ELSE Outcome([o.db EXCEPT !.live = liveInsert(@, values)], "ok")

\* (variant: the live INSERT without the recordVersion call)
insertUnrecorded(d, values) ==
    IF ~registered THEN Outcome(d, "NotRegisteredError")
    ELSE IF ~liveInsertOk(d.live, values) THEN Outcome(d, "StoreError")
    ELSE Outcome([d EXCEPT !.live = liveInsert(@, values)], "ok")

\* (variant: the version is the inserted row, read back from the live table)
insertRereading(d, values) ==
    IF ~registered THEN Outcome(d, "NotRegisteredError")
    ELSE IF ~liveInsertOk(d.live, values) THEN Outcome(d, "StoreError")
    ELSE recordVersion([d EXCEPT !.live = liveInsert(@, values)],
                       CHOOSE r \in liveInsert(d.live, values) : r \notin d.live,
                       "INSERT")

\* Chronicle.insert
insert(d, values) == insertOn(versionedTables, d, values)

\* Chronicle.update, on the engine instance whose versionedTables is tables
updateOn(tables, d, values, where) ==
    IF TableName \notin DOMAIN tables THEN Outcome(d, "NotRegisteredError")
    ELSE IF DOMAIN where = {} THEN Outcome(d, "StoreError")
    ELSE IF liveSelect(d.live, where) = {} THEN Outcome(d, "RecordNotFoundError")
    ELSE IF ~liveUpdateOk(d.live, values, where) THEN Outcome(d, "StoreError")
    ELSE recordVersion([d EXCEPT !.live = liveUpdated(@, values, where)],
                       merge(firstRow(liveSelect(d.live, where)), values),
                       "UPDATE")

\* (variant: the version stores the row as read before the UPDATE)
updateRecordingOld(d, values, where) ==
    IF ~registered THEN Outcome(d, "NotRegisteredError")
    ELSE IF DOMAIN where = {} THEN Outcome(d, "StoreError")
    ELSE IF liveSelect(d.live, where) = {} THEN Outcome(d, "RecordNotFoundError")
    ELSE IF ~liveUpdateOk(d.live, values, where) THEN Outcome(d, "StoreError")
    ELSE recordVersion([d EXCEPT !.live = liveUpdated(@, values, where)],
                       firstRow(liveSelect(d.live, where)),
                       "UPDATE")

\* (variant: a predicate matching no row is not rejected)
updateWithoutLookup(d, values, where) ==
    IF ~registered THEN Outcome(d, "NotRegisteredError")
    ELSE IF DOMAIN where = {} THEN Outcome(d, "StoreError")
    ELSE IF ~liveUpdateOk(d.live, values, where) THEN Outcome(d, "StoreError")
    ELSE recordVersion([d EXCEPT !.live = liveUpdated(@, values, where)],
                       IF liveSelect(d.live, where) = {} THEN values
                       ELSE merge(firstRow(liveSelect(d.live, where)), values),
                       "UPDATE")

\* (variant: the live UPDATE without the recordVersion call)
updateUnrecorded(d, values, where) ==
    IF ~registered THEN Outcome(d, "NotRegisteredError")
    ELSE IF DOMAIN where = {} THEN Outcome(d, "StoreError")
    ELSE IF liveSelect(d.live, where) = {} THEN Outcome(d, "RecordNotFoundError")
    ELSE IF ~liveUpdateOk(d.live, values, where) THEN Outcome(d, "StoreError")
    ELSE Outcome([d EXCEPT !.live = liveUpdated(@, values, where)], "ok")

\* Chronicle.update
update(d, values, where) == updateOn(versionedTables, d, values, where)

\* Chronicle.delete, on the engine instance whose versionedTables is tables
deleteOn(tables, d, where) ==
    IF TableName \notin DOMAIN tables THEN Outcome(d, "NotRegisteredError")
    ELSE IF DOMAIN where = {} THEN Outcome(d, "StoreError")
    ELSE IF liveSelect(d.live, where) = {} THEN Outcome(d, "RecordNotFoundError")
    ELSE recordVersion([d EXCEPT !.live = liveDelete(@, where)],
                       firstRow(liveSelect(d.live, where)),
                       "DELETE")

\* (variant: the version is recorded but the DELETE statement is missing)
deleteKeepingLive(d, where) ==
    IF ~registered THEN Outcome(d, "NotRegisteredError")
    ELSE IF DOMAIN where = {} THEN Outcome(d, "StoreError")
    ELSE IF liveSelect(d.live, where) = {} THEN Outcome(d, "RecordNotFoundError")
    ELSE recordVersion(d, firstRow(liveSelect(d.live, where)), "DELETE")

\* Chronicle.delete
delete(d, where) == deleteOn(versionedTables, d, where)

\* (variant: ORDER BY version_id DESC)
RECURSIVE orderByVersionIdDesc(_)
orderByVersionIdDesc(rows) ==
    IF rows = {} THEN <<>>
    ELSE LET first == CHOOSE v \in rows :
                        \A w \in rows : v.version_id >= w.version_id
         IN <<first>> \o orderByVersionIdDesc(rows \ {first})

getVersionsDescending(h, where) ==
    orderByVersionIdDesc({v \in h : Matches(v, where)})

\* Chronicle.getVersions: SELECT * FROM history WHERE ... ORDER BY version_id
RECURSIVE orderByVersionId(_)
orderByVersionId(rows) ==
    IF rows = {} THEN <<>>
    ELSE LET first == CHOOSE v \in rows :
                        \A w \in rows : v.version_id <= w.version_id
         IN <<first>> \o orderByVersionId(rows \ {first})

getVersions(h, where) == orderByVersionId({v \in h : Matches(v, where)})

\* (variant: WHERE version_id <= ?)
getVersionAtMost(h, versionId) == {v \in h : v.version_id <= versionId}

\* Chronicle.getVersion: the rows SELECT * FROM history WHERE version_id = ?
\* finds; none is the null result
getVersion(h, versionId) == {v \in h : v.version_id = versionId}

\* (variant: the version row is passed on with its metadata columns)
stripMetadataNone(version) == version

\* const { version_id, version_created_at, version_operation, ...data }
stripMetadata(version) == [id |-> version.id, name |-> version.name]

\* Chronicle.rollback, on the engine instance whose versionedTables is tables
rollbackOn(tables, d, versionId, where) ==
    IF TableName \notin DOMAIN tables THEN Outcome(d, "NotRegisteredError")
    ELSE IF ~historyExists THEN Outcome(d, "StoreError")
    ELSE IF getVersion(d.history, versionId) = {}
        THEN Outcome(d, "VersionNotFoundError")
    ELSE updateOn(tables, d,
                  stripMetadata(CHOOSE v \in getVersion(d.history, versionId) : TRUE),
                  where)

\* (variant: rollback by removing the versions after the target)
rollbackTruncating(d, versionId, where) ==
    IF ~registered THEN Outcome(d, "NotRegisteredError")
    ELSE IF ~historyExists THEN Outcome(d, "StoreError")
    ELSE IF getVersion(d.history, versionId) = {}
        THEN Outcome(d, "VersionNotFoundError")
    ELSE update([d EXCEPT !.history = {v \in @ : v.version_id <= versionId}],
                stripMetadata(CHOOSE v \in getVersion(d.history, versionId) : TRUE),
                where)

\* (variant: the missing version is not checked before the update)
rollbackUnchecked(d, versionId, where) ==
    IF ~registered THEN Outcome(d, "NotRegisteredError")
    ELSE IF ~historyExists THEN Outcome(d, "StoreError")
    ELSE update(d,
                IF getVersion(d.history, versionId) = {} THEN EmptyMap
                ELSE stripMetadata(CHOOSE v \in getVersion(d.history, versionId) : TRUE),
                where)

\* (variant: the version is looked up before the registry)
rollbackLookupFirst(d, versionId, where) ==
    IF ~historyExists THEN Outcome(d, "StoreError")
    ELSE IF getVersion(d.history, versionId) = {}
        THEN Outcome(d, "VersionNotFoundError")
    ELSE IF ~registered THEN Outcome(d, "NotRegisteredError")
    ELSE update(d,
                stripMetadata(CHOOSE v \in getVersion(d.history, versionId) : TRUE),
                where)

\* (variant: the live row is restored without a new version)
rollbackUnversioned(d, versionId, where) ==
    IF ~registered THEN Outcome(d, "NotRegisteredError")
    ELSE IF ~historyExists THEN Outcome(d, "StoreError")
    ELSE IF getVersion(d.history, versionId) = {}
        THEN Outcome(d, "VersionNotFoundError")
    ELSE LET o == update(d,
                         stripMetadata(CHOOSE v \in getVersion(d.history, versionId) : TRUE),
                         where)
         IN  IF o.result # "ok" THEN o
             ELSE Outcome([d EXCEPT !.live = o.db.live], "ok")

\* (variant: the new version is recorded with the target's operation)
rollbackCopyingOperation(d, versionId, where) ==
    IF ~registered THEN Outcome(d, "NotRegisteredError")
    ELSE IF ~historyExists THEN Outcome(d, "StoreError")
    ELSE IF getVersion(d.history, versionId) = {}
        THEN Outcome(d, "VersionNotFoundError")
    ELSE LET target == CHOOSE v \in getVersion(d.history, versionId) : TRUE
             o == update(d, stripMetadata(target), where)
         IN  IF o.result # "ok" THEN o
             ELSE Outcome([o.db EXCEPT !.history = d.history \cup
                    {[v EXCEPT !.version_operation = target.version_operation] :
                        v \in o.db.history \ d.history}], "ok")

\* (variant: a record without a live row is inserted again)
rollbackRecreating(d, versionId, where) ==
    IF ~registered THEN Outcome(d, "NotRegisteredError")
    ELSE IF ~historyExists THEN Outcome(d, "StoreError")
    ELSE IF getVersion(d.history, versionId) = {}
        THEN Outcome(d, "VersionNotFoundError")
    ELSE LET values == stripMetadata(CHOOSE v \in getVersion(d.history, versionId) : TRUE)
         IN  IF DOMAIN where # {} /\ liveSelect(d.live, where) = {}
             THEN insert(d, values)
             ELSE update(d, values, where)

\* (variant: nothing is done when the live row already equals the target)
rollbackIfChanged(d, versionId, where) ==
    IF ~registered THEN Outcome(d, "NotRegisteredError")
    ELSE IF ~historyExists THEN Outcome(d, "StoreError")
    ELSE IF getVersion(d.history, versionId) = {}
        THEN Outcome(d, "VersionNotFoundError")
    ELSE LET values == stripMetadata(CHOOSE v \in getVersion(d.history, versionId) : TRUE)
         IN  IF liveSelect(d.live, where) = {values}
             THEN Outcome(d, "ok")
             ELSE update(d, values, where)

\* (variant: the version is looked up among the predicate's versions only)
rollbackOwnVersions(d, versionId, where) ==
    IF ~registered THEN Outcome(d, "NotRegisteredError")
    ELSE IF ~historyExists THEN Outcome(d, "StoreError")
    ELSE IF {v \in getVersion(d.history, versionId) : Matches(v, where)} = {}
        THEN Outcome(d, "VersionNotFoundError")
    ELSE update(d,
                stripMetadata(CHOOSE v \in getVersion(d.history, versionId) : TRUE),
                where)

\* Chronicle.rollback
rollback(d, versionId, where) == rollbackOn(versionedTables, d, versionId, where)

\* ----------------------------------------------------------------- actions
\* The record of a call: the arguments of a mutating call are kept when it
\* returned normally; a query, and a call that threw, is recorded by its
\* name and its result.
Call(op, values, where, versionId, result) ==
    IF result = "ok" /\ op \notin {"getVersions", "getVersion"}
    THEN [op |-> op, values |-> values, where |-> where,
          versionId |-> versionId, result |-> result]
    ELSE [op |-> op, values |-> EmptyMap, where |-> EmptyMap,
          versionId |-> 0, result |-> result]

\* the history table stays within the model's bound
WithinBound(o) == Cardinality(o.db.history) <= MaxHist

\* a mutating call with outcome o
Apply(o, op, values, where, versionId) ==
    /\ live' = o.db.live
    /\ history' = o.db.history
    /\ seq' = o.db.seq
    /\ last' = Call(op, values, where, versionId, o.result)
    /\ UNCHANGED <<versionedTables, otherVersionedTables, historyTableSuffix,
                   autoCreateHistoryTables, historyTables, historyColumns,
                   inFlight, trace>>

\* new Chronicle(db, config) over a store holding an empty live table
Constructed(suffix) ==
    /\ versionedTables = [name \in {} |-> [table |-> <<>>, historyTableName |-> ""]]
    /\ otherVersionedTables = versionedTables
    /\ historyTableSuffix = suffix
    /\ autoCreateHistoryTables \in BOOLEAN
    /\ live = {}
    /\ historyTables = {}
    /\ historyColumns = <<>>
    /\ history = {}
    /\ seq = 0
    /\ last = Call("new", EmptyMap, EmptyMap, 0, "ok")
    /\ inFlight = {}
    /\ trace = <<>>

Init == Constructed(DefaultSuffix)

\* Chronicle.registerTable (with createHistoryTable: CREATE TABLE IF NOT
\* EXISTS, which leaves an existing history table as it is)
\* (variant: the history table is created whatever the config says)
createAlways(hs, table) == createHistoryTable(hs, table)

\* if (this.config.autoCreateHistoryTables) this.createHistoryTable(...)
createIfConfigured(hs, table) ==
    IF autoCreateHistoryTables THEN createHistoryTable(hs, table) ELSE hs

\* registry.set(tableName, versionedTable)
setBinding(tables, table) ==
    [name \in DOMAIN tables \cup {TableName} |->
        IF name = TableName
        THEN [table |-> table, historyTableName |-> historyTableName(TableName)]
        ELSE tables[name]]

\* how registerTable returns: createHistoryTable throws for an invalid
\* column, and the store rejects a CREATE TABLE that lists no live column
registerResult(table) ==
    IF ~autoCreateHistoryTables THEN "ok"
    ELSE IF invalidColumn(table) THEN "ConfigurationError"
    ELSE IF columnDefs(table) = <<>> THEN "StoreError"
    ELSE "ok"

Register(table) ==
    /\ versionedTables' = setBinding(versionedTables, table)
    /\ LET hs == createIfConfigured(historyStore, table)
       IN  /\ historyTables' = hs.tables
           /\ historyColumns' = hs.columns
           /\ history' = hs.rows
           /\ seq' = hs.seq
    /\ last' = [op |-> "registerTable", table |-> table, values |-> EmptyMap,
                where |-> EmptyMap, versionId |-> 0,
                result |-> registerResult(table)]
    /\ UNCHANGED <<otherVersionedTables, historyTableSuffix,
                   autoCreateHistoryTables, live, inFlight, trace>>

\* registerTable(testTable, "test_table")
RegisterTable == Register(testTable)

\* (a row without id is inserted only while the rowid it gets is in Ids)
Insert(values) ==
    /\ "id" \notin DOMAIN values => nextRowid(live) \in Ids
    /\ LET o == insert(db, values)
       IN  WithinBound(o) /\ Apply(o, "insert", values, EmptyMap, 0)

Update(values, where) ==
    LET o == update(db, values, where)
    IN  WithinBound(o) /\ Apply(o, "update", values, where, 0)

Delete(where) ==
    LET o == delete(db, where)
    IN  WithinBound(o) /\ Apply(o, "delete", EmptyMap, where, 0)

Rollback(versionId, where) ==
    LET o == rollback(db, versionId, where)
    IN  WithinBound(o) /\ Apply(o, "rollback", EmptyMap, where, versionId)

\* how the SELECT of getVersions ends: the store rejects it when the history
\* table does not exist or the WHERE clause is empty
getVersionsResult(where) ==
    IF historyExists /\ DOMAIN where # {} THEN "ok" ELSE "StoreError"

\* how the SELECT of getVersion ends
getVersionResult(versionId) ==
    IF historyExists THEN "ok" ELSE "StoreError"

GetVersions(where) ==
    /\ last' = Call("getVersions", EmptyMap, where, 0, getVersionsResult(where))
    /\ UNCHANGED <<versionedTables, otherVersionedTables, historyTableSuffix,
                   autoCreateHistoryTables, live, historyTables, historyColumns,
                   history, seq, inFlight, trace>>

GetVersion(versionId) ==
    /\ last' = Call("getVersion", EmptyMap, EmptyMap, versionId,
                    getVersionResult(versionId))
    /\ UNCHANGED <<versionedTables, otherVersionedTables, historyTableSuffix,
                   autoCreateHistoryTables, live, historyTables, historyColumns,
                   history, seq, inFlight, trace>>

Next ==
    \/ RegisterTable
    \/ \E values \in ValueMaps : Insert(values)
    \/ \E values \in ValueMaps, where \in Predicates : Update(values, where)
    \/ \E where \in Predicates : Delete(where)
    \/ \E versionId \in VersionIds, where \in Predicates : Rollback(versionId, where)
    \/ \E where \in Predicates : GetVersions(where)
    \/ \E versionId \in VersionIds : GetVersion(versionId)

Spec == Init /\ [][Next]_vars

\* Calls that address one record by its key and leave the key column alone:
\* insert of a full row, update of the data column and delete, each with
\* the predicate { id: k }.
keyPredicate(k) == mkMap(k, NullName)

InsertKey(k, n) == Insert(mkMap(k, n))

UpdateKey(k, n) == Update(mkMap(NullId, n), keyPredicate(k))

DeleteKey(k) == Delete(keyPredicate(k))

NextKey ==
    \/ RegisterTable
    \/ \E k \in Ids, n \in Names : InsertKey(k, n)
    \/ \E k \in Ids, n \in Names : UpdateKey(k, n)
    \/ \E k \in Ids : DeleteKey(k)

SpecKey == Init /\ [][NextKey]_vars

\* The second instance: registerTable(testTable, "test_table") and the
\* key-addressed calls made through it.
CallOther(c) ==
    [instance |-> 2, op |-> c.op, values |-> c.values, where |-> c.where,
     versionId |-> c.versionId, result |-> c.result]

ApplyOther(o, op, values, where) ==
    /\ WithinBound(o)
    /\ live' = o.db.live
    /\ history' = o.db.history
    /\ seq' = o.db.seq
    /\ last' = CallOther(Call(op, values, where, 0, o.result))
    /\ UNCHANGED <<versionedTables, otherVersionedTables, historyTableSuffix,
                   autoCreateHistoryTables, historyTables, historyColumns,
                   inFlight, trace>>

RegisterTableOther ==
    /\ otherVersionedTables' = setBinding(otherVersionedTables, testTable)
    /\ LET hs == createIfConfigured(historyStore, testTable)
       IN  /\ historyTables' = hs.tables
           /\ historyColumns' = hs.columns
           /\ history' = hs.rows
           /\ seq' = hs.seq
    /\ last' = CallOther(Call("registerTable", EmptyMap, EmptyMap, 0, "ok"))
    /\ UNCHANGED <<versionedTables, historyTableSuffix, autoCreateHistoryTables,
                   live, inFlight, trace>>

InsertKeyOther(k, n) ==
    ApplyOther(insertOn(versionedTablesOf(2), db, mkMap(k, n)),
               "insert", mkMap(k, n), EmptyMap)

UpdateKeyOther(k, n) ==
    ApplyOther(updateOn(versionedTablesOf(2), db, mkMap(NullId, n), keyPredicate(k)),
               "update", mkMap(NullId, n), keyPredicate(k))

DeleteKeyOther(k) ==
    ApplyOther(deleteOn(versionedTablesOf(2), db, keyPredicate(k)),
               "delete", EmptyMap, keyPredicate(k))

NextInstances ==
    \/ NextKey
    \/ RegisterTableOther
    \/ \E k \in Ids, n \in Names : InsertKeyOther(k, n)
    \/ \E k \in Ids, n \in Names : UpdateKeyOther(k, n)
    \/ \E k \in Ids : DeleteKeyOther(k)

SpecInstances == Init /\ [][NextInstances]_vars

\* Registration with either descriptor, repeated at any time, between
\* key-addressed calls.
NextRegister ==
    \/ \E table \in Descriptors : Register(table)
    \/ NextKey

SpecRegister == Init /\ [][NextRegister]_vars

\* Registration of the tables of SchemaDescriptors, repeated at any time.
NextSchema == \E table \in SchemaDescriptors : Register(table)

SpecSchema == Init /\ [][NextSchema]_vars

\* The same calls and the queries on an engine constructed with either
\* suffix.
InitSuffix == \E suffix \in Suffixes : Constructed(suffix)

NextSuffix ==
    \/ NextKey
    \/ \E k \in Ids : GetVersions(keyPredicate(k))
    \/ \E versionId \in VersionIds : GetVersion(versionId)

SpecSuffix == InitSuffix /\ [][NextSuffix]_vars

\* A record's lifetime through deletion and re-creation: any insert, and
\* update, delete and rollback with the predicate { id: k }, up to one
\* version more than Spec records.
MaxLifetime == MaxHist + 1

WithinLifetime(o) == Cardinality(o.db.history) <= MaxLifetime

InsertLifetime(values) ==
    /\ "id" \notin DOMAIN values => nextRowid(live) \in Ids
    /\ LET o == insert(db, values)
       IN  WithinLifetime(o) /\ Apply(o, "insert", values, EmptyMap, 0)

UpdateLifetime(values, k) ==
    LET o == update(db, values, keyPredicate(k))
    IN  WithinLifetime(o) /\ Apply(o, "update", values, keyPredicate(k), 0)

DeleteLifetime(k) ==
    LET o == delete(db, keyPredicate(k))
    IN  WithinLifetime(o) /\ Apply(o, "delete", EmptyMap, keyPredicate(k), 0)

RollbackLifetime(versionId, k) ==
    LET o == rollback(db, versionId, keyPredicate(k))
    IN  WithinLifetime(o) /\ Apply(o, "rollback", EmptyMap, keyPredicate(k), versionId)

NextLifetime ==
    \/ RegisterTable
    \/ \E values \in ValueMaps : InsertLifetime(values)
    \/ \E values \in ValueMaps, k \in Ids : UpdateLifetime(values, k)
    \/ \E k \in Ids : DeleteLifetime(k)
    \/ \E versionId \in VersionIds, k \in Ids : RollbackLifetime(versionId, k)

SpecLifetime == Init /\ [][NextLifetime]_vars

\* ---------------------------------------------------------- calls in flight
\* insert, update and delete are async functions: a call runs on the one JS
\* thread from its start to its first await, and other calls run only while
\* it waits there. A call's statements are its steps: "lookup" (the registry
\* check and, for update and delete, the SELECT of the current row), "write"
\* (the live statement), "record" (recordVersion's INSERT) and "await" (the
\* call waits for recordVersion's promise, then returns).
MaxCalls == MaxHist

\* (variant: a call gives up the thread after each statement)
yieldsAfterEachStatement(pc) == TRUE

\* the steps at which a call waits while other calls run: the only await of
\* insert, update and delete follows recordVersion, which has none; rollback
\* also awaits getVersion
yields(pc) == pc \in {"await", "awaitVersion"}

threadFree(others) == \A g \in others : yields(g.pc)

started == {i \in DOMAIN trace : trace[i].step = "call"}

\* an entry of the trace: the call, the statement it ran, the live row the
\* statement read or left (none: the empty map) and the version_id assigned
entry(f, step, row, versionId) ==
    [call |-> f.call, op |-> f.op, key |-> f.key, step |-> step, row |-> row,
     version_id |-> versionId]

\* the call throws: its promise is rejected
throw(f, result) ==
    /\ inFlight' = inFlight \ {f}
    /\ last' = Call(f.op, EmptyMap, EmptyMap, 0, result)

\* the call goes on to its next statement
advance(f, pc, current) ==
    /\ inFlight' = (inFlight \ {f}) \cup {[f EXCEPT !.pc = pc, !.current = current]}
    /\ UNCHANGED last

\* the caller calls insert, update or delete on the record with key `key`
Start(op, key, values, where) ==
    /\ threadFree(inFlight)
    /\ Cardinality(started) < MaxCalls
    /\ LET f == [call |-> Cardinality(started) + 1, op |-> op, key |-> key,
                 values |-> values, where |-> where, current |-> EmptyMap,
                 pc |-> "lookup"]
       IN  /\ inFlight' = inFlight \cup {f}
           /\ trace' = Append(trace, entry(f, "call", EmptyMap, 0))
    /\ UNCHANGED <<versionedTables, otherVersionedTables, historyTableSuffix,
                   autoCreateHistoryTables, live, historyTables, historyColumns,
                   history, seq, last>>

\* versionedTables.get(tableName) and, in update and delete, the SELECT of
\* the current row
Lookup(f) ==
    /\ f.pc = "lookup"
    /\ threadFree(inFlight \ {f})
    /\ IF ~registered THEN throw(f, "NotRegisteredError") /\ UNCHANGED trace
       ELSE IF f.op = "insert" THEN advance(f, "write", EmptyMap) /\ UNCHANGED trace
       ELSE IF DOMAIN f.where = {} THEN throw(f, "StoreError") /\ UNCHANGED trace
       ELSE LET rows == liveSelect(live, f.where)
            IN  IF rows = {}
                THEN /\ throw(f, "RecordNotFoundError")
                     /\ trace' = Append(trace, entry(f, "read", EmptyMap, 0))
                ELSE /\ advance(f, "write", firstRow(rows))
                     /\ trace' = Append(trace, entry(f, "read", firstRow(rows), 0))
    /\ UNCHANGED <<versionedTables, otherVersionedTables, historyTableSuffix,
                   autoCreateHistoryTables, live, historyTables, historyColumns,
                   history, seq>>

\* the live table after the call's INSERT, UPDATE or DELETE statement
written(f) ==
    CASE f.op = "insert" -> liveInsert(live, f.values)
      [] f.op \in {"update", "rollback"} -> liveUpdated(live, f.values, f.where)
      [] f.op = "delete" -> liveDelete(live, f.where)

writeOk(f) ==
    CASE f.op = "insert" -> liveInsertOk(live, f.values)
      [] f.op \in {"update", "rollback"} -> liveUpdateOk(live, f.values, f.where)
      [] f.op = "delete" -> TRUE

\* the live statement
Write(f) ==
    /\ f.pc = "write"
    /\ threadFree(inFlight \ {f})
    /\ IF ~writeOk(f)
       THEN throw(f, "StoreError") /\ UNCHANGED <<live, trace>>
       ELSE /\ live' = written(f)
            /\ advance(f, "record", f.current)
            /\ trace' = Append(trace,
                    entry(f, "write",
                          IF \E r \in written(f) : r.id = f.key
                          THEN CHOOSE r \in written(f) : r.id = f.key
                          ELSE EmptyMap, 0))
    /\ UNCHANGED <<versionedTables, otherVersionedTables, historyTableSuffix,
                   autoCreateHistoryTables, historyTables, historyColumns,
                   history, seq>>

\* the arguments of the call's recordVersion
recorded(f) ==
    CASE f.op = "insert" -> [values |-> f.values, operation |-> "INSERT"]
      [] f.op \in {"update", "rollback"} ->
            [values |-> merge(f.current, f.values), operation |-> "UPDATE"]
      [] f.op = "delete" -> [values |-> f.current, operation |-> "DELETE"]

\* recordVersion's INSERT; the call then awaits the promise it returned
Record(f) ==
    /\ f.pc = "record"
    /\ threadFree(inFlight \ {f})
    /\ LET o == recordVersion(db, recorded(f).values, recorded(f).operation)
       IN  /\ WithinBound(o)
           /\ history' = o.db.history
           /\ seq' = o.db.seq
           /\ IF o.result # "ok"
              THEN throw(f, o.result) /\ UNCHANGED trace
              ELSE /\ inFlight' = (inFlight \ {f}) \cup
                        {[f EXCEPT !.pc = "await", !.values = EmptyMap,
                                   !.where = EmptyMap, !.current = EmptyMap]}
                   /\ trace' = Append(trace,
                        entry(f, "append", recorded(f).values, o.db.seq))
                   /\ UNCHANGED last
    /\ UNCHANGED <<versionedTables, otherVersionedTables, historyTableSuffix,
                   autoCreateHistoryTables, live, historyTables, historyColumns>>

\* the await ends and the call returns: its promise is fulfilled
Settle(f) ==
    /\ f.pc = "await"
    /\ threadFree(inFlight \ {f})
    /\ inFlight' = inFlight \ {f}
    /\ last' = Call(f.op, EmptyMap, EmptyMap, 0, "ok")
    /\ UNCHANGED <<versionedTables, otherVersionedTables, historyTableSuffix,
                   autoCreateHistoryTables, live, historyTables, historyColumns,
                   history, seq, trace>>

\* registerTable is synchronous: it runs while no call is between statements
RegisterTableBetweenCalls == threadFree(inFlight) /\ RegisterTable

NextInFlight ==
    \/ RegisterTableBetweenCalls
    \/ \E k \in Ids, n \in Names : Start("insert", k, mkMap(k, n), EmptyMap)
    \/ \E k \in Ids, n \in Names :
        Start("update", k, mkMap(NullId, n), keyPredicate(k))
    \/ \E k \in Ids : Start("delete", k, EmptyMap, keyPredicate(k))
    \/ \E f \in inFlight : Lookup(f)
    \/ \E f \in inFlight : Write(f)
    \/ \E f \in inFlight : Record(f)
    \/ \E f \in inFlight : Settle(f)

SpecInFlight == Init /\ [][NextInFlight]_vars

\* rollback in flight: the call runs to `await this.getVersion(...)`, waits
\* there while other calls run, and then runs the statements of the update
\* it calls ("lookup", "write", "record") up to that call's await. The
\* version ids tried are the assigned ones and the next one, which no row
\* has when getVersion runs, as is the case for every id above it.
StartRollback(versionId, key) ==
    /\ threadFree(inFlight)
    /\ versionId <= nextVersionId(history, seq)
    /\ Cardinality(started) < MaxCalls
    /\ LET f == [call |-> Cardinality(started) + 1, op |-> "rollback",
                 key |-> key, values |-> EmptyMap, where |-> keyPredicate(key),
                 current |-> EmptyMap, pc |-> "getVersion",
                 versionId |-> versionId]
       IN  /\ inFlight' = inFlight \cup {f}
           /\ trace' = Append(trace, entry(f, "call", EmptyMap, versionId))
    /\ UNCHANGED <<versionedTables, otherVersionedTables, historyTableSuffix,
                   autoCreateHistoryTables, live, historyTables, historyColumns,
                   history, seq, last>>

\* versionedTables.get(tableName) and getVersion's SELECT; the call then
\* awaits the promise getVersion returned
FindVersion(f) ==
    /\ f.pc = "getVersion"
    /\ threadFree(inFlight \ {f})
    /\ IF ~registered THEN throw(f, "NotRegisteredError") /\ UNCHANGED trace
       ELSE IF ~historyExists THEN throw(f, "StoreError") /\ UNCHANGED trace
       ELSE LET found == getVersion(history, f.versionId)
                version == IF found = {} THEN EmptyMap ELSE CHOOSE v \in found : TRUE
            IN  /\ advance(f, "awaitVersion", version)
                /\ trace' = Append(trace,
                        entry(f, "version",
                              IF found = {} THEN EmptyMap ELSE stripMetadata(version),
                              f.versionId))
    /\ UNCHANGED <<versionedTables, otherVersionedTables, historyTableSuffix,
                   autoCreateHistoryTables, live, historyTables, historyColumns,
                   history, seq>>

\* (variant: rollback runs the UPDATE without looking the live row up)
updateCallUnchecked(f) ==
    [f EXCEPT !.values = stripMetadata(f.current), !.current = EmptyMap,
              !.pc = "write"]

\* this.update(tableName, data, options.where), data being the version
\* without its metadata columns
updateCall(f) ==
    [f EXCEPT !.values = stripMetadata(f.current), !.current = EmptyMap,
              !.pc = "lookup"]

\* the version arrives: rollback throws when there is none and calls update
\* otherwise
ResumeRollback(f) ==
    /\ f.pc = "awaitVersion"
    /\ threadFree(inFlight \ {f})
    /\ IF f.current = EmptyMap
       THEN throw(f, "VersionNotFoundError")
       ELSE /\ inFlight' = (inFlight \ {f}) \cup {updateCall(f)}
            /\ UNCHANGED last
    /\ UNCHANGED <<versionedTables, otherVersionedTables, historyTableSuffix,
                   autoCreateHistoryTables, live, historyTables, historyColumns,
                   history, seq, trace>>

NextRollbackInFlight ==
    \/ NextInFlight
    \/ \E versionId \in VersionIds, k \in Ids : StartRollback(versionId, k)
    \/ \E f \in inFlight : FindVersion(f)
    \/ \E f \in inFlight : ResumeRollback(f)

SpecRollbackInFlight == Init /\ [][NextRollbackInFlight]_vars

TypeOK ==
    /\ DOMAIN versionedTables \subseteq {TableName}
    /\ DOMAIN otherVersionedTables \subseteq {TableName}
    /\ historyTableSuffix \in Suffixes
    /\ historyTables \subseteq {TableName \o suffix : suffix \in Suffixes}
    /\ \A r \in live : r.id \in Ids /\ r.name \in Names
    /\ Cardinality(history) <= MaxLifetime


\* -------------------------------------------------------------- properties
\* the column values of a row, without the version metadata
Attributes(v) == [id |-> v.id, name |-> v.name]

Succeeded(c, ops) == c.result = "ok" /\ c.op \in ops

\* the version_operation a call records
OperationOf(op) ==
    IF op = "insert" THEN "INSERT" ELSE IF op = "delete" THEN "DELETE" ELSE "UPDATE"

\* the key a key-addressed call names
CallKey(c) ==
    IF c.op = "insert"
    THEN IF "id" \in DOMAIN c.values THEN c.values["id"] ELSE NullId
    ELSE IF "id" \in DOMAIN c.where THEN c.where["id"] ELSE NullId

\* the rows a call appended to the history table
Appended == history' \ history

StrictlyIncreasing(s) ==
    \A i, j \in DOMAIN s : i < j => s[i].version_id < s[j].version_id

\* C1: when every call addresses a record by its key, each successful
\* insert/update/delete on key k adds exactly one entry at the end of
\* getVersions(k), with the call's operation and a version_id above all
\* earlier ones, and no other step changes getVersions(k): the entries are
\* the calls, in call order, in strictly increasing version_id order.
C1_VersionsFollowCalls ==
    [][\A k \in Ids :
        LET before == getVersions(history, keyPredicate(k))
            after == getVersions(history', keyPredicate(k))
        IN  /\ StrictlyIncreasing(after)
            /\ IF Succeeded(last', {"insert", "update", "delete"}) /\ CallKey(last') = k
               THEN /\ Len(after) = Len(before) + 1
                    /\ SubSeq(after, 1, Len(before)) = before
                    /\ after[Len(after)].version_operation = OperationOf(last'.op)
               ELSE after = before]_vars

C1_Witness ==
    /\ Succeeded(last, {"delete"})
    /\ \E k \in Ids :
        LET vs == getVersions(history, keyPredicate(k))
        IN  /\ Len(vs) = 3
            /\ vs[1].version_operation = "INSERT"
            /\ vs[2].version_operation = "UPDATE"
            /\ vs[3].version_operation = "DELETE"

\* C2: no step removes or changes a history row: every row of the history
\* table before a call is a row of it afterwards, with the same
\* version_id, operation and column values.
C2_HistoryAppendOnly ==
    [][\A v \in history : \E w \in history' :
            /\ w.version_id = v.version_id
            /\ w.version_operation = v.version_operation
            /\ w.id = v.id /\ w.name = v.name]_vars

C2_Witness ==
    /\ Succeeded(last, {"rollback"})
    /\ Cardinality(history) = 3

\* C3: the live write and the history append of a call succeed or fail
\* together: a call that throws leaves the live table and the history table
\* as they were, and a step that changes the live table appends a version.
C3_WritesTogether ==
    [][/\ last'.result # "ok" => (live' = live /\ history' = history)
       /\ live' # live => Appended # {}]_vars

\* C4: every live row a successful update changed, and every live row a
\* successful delete removed, has a version of its own among the rows the
\* call appended (an Update version with the row's new values, a Delete
\* version with the removed row's values).
C4_EveryChangedRowMirrored ==
    [][/\ Succeeded(last', {"update"}) =>
            \A r \in live' \ live : \E v \in Appended :
                v.version_operation = "UPDATE" /\ Attributes(v) = r
       /\ Succeeded(last', {"delete"}) =>
            \A r \in live \ live' : \E v \in Appended :
                v.version_operation = "DELETE" /\ Attributes(v) = r]_vars

\* C5: a successful insert of a row with key k, when getVersions(k) was
\* empty, makes getVersions(k) one entry, an INSERT whose columns are the
\* inserted values, and the live table holds the row.
C5_InsertFirstVersion ==
    [][(/\ Succeeded(last', {"insert"})
        /\ CallKey(last') # NullId
        /\ getVersions(history, keyPredicate(CallKey(last'))) = <<>>)
       => LET vs == getVersions(history', keyPredicate(CallKey(last')))
          IN  /\ Len(vs) = 1
              /\ vs[1].version_operation = "INSERT"
              /\ \A c \in Cols : /\ c \in DOMAIN last'.values
                                  /\ vs[1][c] = last'.values[c]
              /\ \E r \in live' : \A c \in Cols : r[c] = last'.values[c]]_vars

C5_Witness ==
    /\ Succeeded(last, {"insert"})
    /\ CallKey(last) # NullId
    /\ Len(getVersions(history, keyPredicate(CallKey(last)))) = 1
    /\ Cardinality(history) > 1

\* C6: a successful update appends exactly one row, an UPDATE whose columns
\* are the selected pre-update live row overwritten by the supplied values,
\* and that merged row is a live row afterwards; also when the supplied
\* values are the current ones.
C6_UpdateAppendsMergedRow ==
    [][Succeeded(last', {"update"})
       => /\ history \subseteq history'
          /\ Cardinality(Appended) = 1
          /\ \E cur \in liveSelect(live, last'.where) : \A v \in Appended :
                /\ v.version_operation = "UPDATE"
                /\ \A c \in Cols :
                    v[c] = IF c \in DOMAIN last'.values
                           THEN last'.values[c] ELSE cur[c]
                /\ Attributes(v) \in live']_vars

\* an update that changed nothing in the live row still left its version
C6_Witness ==
    /\ Succeeded(last, {"update"})
    /\ DOMAIN last.values = {"name"}
    /\ \E v, w \in history :
        /\ w.version_id = v.version_id + 1
        /\ w.version_operation = "UPDATE"
        /\ Attributes(w) = Attributes(v)
        /\ last.where = keyPredicate(w.id)

C8_RollbackRestores ==
    \A v \in history, where \in Predicates, r \in live :
        (DOMAIN where # {} /\ liveSelect(live, where) = {r} /\ v.id = r.id)
        => LET o == rollback(db, v.version_id, where)
           IN  /\ o.result = "ok"
               /\ o.db.live = (live \ {r}) \cup {Attributes(v)}
               /\ history \subseteq o.db.history
               /\ Cardinality(o.db.history) = Cardinality(history) + 1
               /\ \A n \in o.db.history \ history :
                    /\ n.version_operation = "UPDATE"
                    /\ Attributes(n) = Attributes(v)

\* a rollback to an older, different version of the record has been made
C8_Witness ==
    /\ Succeeded(last, {"rollback"})
    /\ \E v, u, n \in history :
        /\ v.version_id = last.versionId
        /\ v.version_id < u.version_id /\ u.version_id < n.version_id
        /\ v.id = u.id /\ u.id = n.id /\ last.where = keyPredicate(v.id)
        /\ Attributes(u) # Attributes(v)
        /\ n.version_operation = "UPDATE"
        /\ Attributes(n) = Attributes(v)
        /\ Attributes(v) \in live

\* C9: on a registered table with a history table, rollback to a
\* version_id no history row has throws VersionNotFoundError, for every
\* predicate; and it leaves the live table and the history table as they
\* were.
C9_RollbackUnknownVersion ==
    \A versionId \in VersionIds, where \in Predicates :
        getVersion(history, versionId) = {}
        => /\ rollback(db, versionId, where).db = db
           /\ (registered /\ historyExists)
                => rollback(db, versionId, where).result = "VersionNotFoundError"

C9_Witness ==
    /\ last.op = "rollback" /\ last.result = "VersionNotFoundError"
    /\ live # {}
    /\ history # {}

\* C10: every appended history row gets a version_id greater than that of
\* every row appended before, whatever its key, no two rows share a
\* version_id, and the row a rollback appends does not take the id of the
\* version rolled back to.
C10_VersionIdIncreases ==
    [][/\ \A v \in Appended : \A w \in history : v.version_id > w.version_id
       /\ \A v, w \in history' : v.version_id = w.version_id => v = w
       /\ Succeeded(last', {"rollback"}) =>
            \A v \in Appended : v.version_id # last'.versionId]_vars

C10_Witness ==
    /\ Succeeded(last, {"rollback"})
    /\ \E v, w \in history :
        /\ v.id # w.id /\ v.id # NullId /\ w.id # NullId
        /\ v.version_id < w.version_id
    /\ \E n \in history : n.version_id = 3 /\ last.versionId < 3

\* C11: while the table name is not in the registry, insert, update, delete
\* and rollback throw NotRegisteredError for every argument (also when no
\* record matches and no version has the id) and leave the live table and
\* the history table as they were.
C11_NotRegisteredFirst ==
    ~registered =>
        /\ \A values \in ValueMaps :
                insert(db, values) = Outcome(db, "NotRegisteredError")
        /\ \A values \in ValueMaps, where \in Predicates :
                update(db, values, where) = Outcome(db, "NotRegisteredError")
        /\ \A where \in Predicates :
                delete(db, where) = Outcome(db, "NotRegisteredError")
        /\ \A versionId \in VersionIds, where \in Predicates :
                rollback(db, versionId, where) = Outcome(db, "NotRegisteredError")

C11_Witness ==
    /\ ~registered
    /\ last.op = "rollback" /\ last.result = "NotRegisteredError"
    /\ live = {} /\ history = {}

\* C12: getVersions and getVersion against a table name that is not in the
\* registry throw NotRegisteredError, as the mutations do.
C12_QueriesNotRegistered ==
    [][(last'.op \in {"getVersions", "getVersion"} /\ ~registered)
        => last'.result = "NotRegisteredError"]_vars

\* C13: on a registered table, update and delete with a predicate (at least
\* one column) that matches no live row throw RecordNotFoundError and leave
\* the live table and the history table as they were.
C13_NoMatchNotFound ==
    registered =>
        \A where \in Predicates :
            (DOMAIN where # {} /\ \A row \in live : ~Matches(row, where))
            => /\ \A values \in ValueMaps :
                    update(db, values, where) = Outcome(db, "RecordNotFoundError")
               /\ delete(db, where) = Outcome(db, "RecordNotFoundError")

C13_Witness ==
    /\ last.op \in {"update", "delete"}
    /\ last.result = "RecordNotFoundError"
    /\ live # {} /\ history # {}

\* C14: the version a call appends holds every column of the live row as it
\* is right after the call (for delete: as it was right before), also when
\* insert was given no value for a column the store fills in.
C14_VersionsHoldFullRow ==
    [][/\ Succeeded(last', {"insert", "update", "rollback"})
            => \A v \in Appended : Attributes(v) \in live'
       /\ Succeeded(last', {"delete"})
            => \A v \in Appended : Attributes(v) \in live \ live']_vars

\* C15: in getVersions with the predicate { id: k }, the entry right after
\* a DELETE entry is never an UPDATE or a DELETE, whatever calls were made.
C15_DeleteThenInsertOnly ==
    \A k \in Ids :
        LET vs == getVersions(history, keyPredicate(k))
        IN  \A i \in 1..(Len(vs) - 1) :
                vs[i].version_operation = "DELETE"
                => vs[i + 1].version_operation = "INSERT"

\* a key's live row and its version sequence
KeyView(d, k) ==
    [live |-> liveSelect(d.live, keyPredicate(k)),
     versions |-> getVersions(d.history, keyPredicate(k))]

\* the store holding the rows of key k only
Only(d, k) ==
    [live |-> {r \in d.live : r.id = k},
     history |-> {v \in d.history : v.id = k},
     seq |-> d.seq]

\* the calls addressed to key k: insert of a full row with that key, update
\* of the data column, delete, and rollback to a version id that is
\* unassigned or belongs to that key, each with the predicate { id: k }
KeyCalls(k) ==
    [op : {"insert", "update"}, name : Names, versionId : {0}]
    \cup [op : {"delete"}, name : {NullName}, versionId : {0}]
    \cup [op : {"rollback"}, name : {NullName},
          versionId : {i \in VersionIds : \A v \in getVersion(history, i) : v.id = k}]

RunKeyCall(d, c, k) ==
    CASE c.op = "insert" -> insert(d, mkMap(k, c.name))
      [] c.op = "update" -> update(d, mkMap(NullId, c.name), keyPredicate(k))
      [] c.op = "delete" -> delete(d, keyPredicate(k))
      [] c.op = "rollback" -> rollback(d, c.versionId, keyPredicate(k))

C17_OneVersionPerSuccess ==
    [][IF Succeeded(last', {"insert", "update", "delete", "rollback"})
       THEN history \subseteq history' /\ Cardinality(history') = Cardinality(history) + 1
       ELSE history' = history]_vars

C17_Witness ==
    /\ last.op \in {"insert", "update", "delete", "rollback"}
    /\ last.result # "ok"
    /\ Cardinality(history) = 2
    /\ {v.version_operation : v \in history} = {"INSERT", "UPDATE"}

\* C18: getVersion changes neither table nor the registry; when the history
\* table exists it returns without throwing, with no row for an id that no
\* version has and with exactly the row of that version_id otherwise.
C18_GetVersionExact ==
    [][last'.op = "getVersion" =>
        /\ UNCHANGED <<versionedTables, live, historyTables, history, seq>>
        /\ historyExists =>
            /\ last'.result = "ok"
            /\ \A versionId \in VersionIds :
                /\ getVersionResult(versionId) = "ok"
                /\ (\A v \in history : v.version_id # versionId)
                    => getVersion(history, versionId) = {}
                /\ \A v \in history :
                    v.version_id = versionId => getVersion(history, versionId) = {v}]_vars

C18_Witness ==
    /\ last.op = "getVersion" /\ last.result = "ok"
    /\ Cardinality(history) = 2
    /\ \E versionId \in VersionIds : getVersion(history, versionId) = {}

\* C19: getVersions changes neither table nor the registry; on a registered
\* table whose history table exists, for every predicate with at least one
\* column it returns without throwing exactly the history rows that equal
\* the predicate on each of its columns, each once, in ascending
\* version_id order, and the empty sequence when there is none.
C19_GetVersionsExact ==
    [][last'.op = "getVersions" =>
        /\ UNCHANGED <<versionedTables, live, historyTables, history, seq>>
        /\ (registered /\ historyExists) =>
            \A where \in Predicates :
                DOMAIN where # {} =>
                    LET vs == getVersions(history, where)
                    IN  /\ getVersionsResult(where) = "ok"
                        /\ {vs[i] : i \in DOMAIN vs}
                            = {v \in history : \A c \in DOMAIN where : v[c] = where[c]}
                        /\ Len(vs) = Cardinality({vs[i] : i \in DOMAIN vs})
                        /\ StrictlyIncreasing(vs)]_vars

C19_Witness ==
    /\ last.op = "getVersions" /\ last.result = "ok" /\ registered
    /\ \E where \in Predicates :
        /\ DOMAIN where = Cols
        /\ Len(getVersions(history, where)) = 2
        /\ Cardinality(history) = 3
    /\ \E where \in Predicates : DOMAIN where # {} /\ getVersions(history, where) = <<>>

\* the name the history table of test_table must have under each suffix
ExpectedHistoryTable ==
    IF historyTableSuffix = "_history" THEN "test_table_history"
    ELSE "test_table_archive"

\* C20: under the default and under a custom suffix, the binding that
\* registerTable stores has historyTableName = live table name followed by
\* the suffix, registration creates no table of another name, and the table
\* every history write and every history read addresses is the table of
\* that name: version rows exist, and a mutation or a query has succeeded,
\* only when that table exists.
C20_HistoryTableNamed ==
    /\ registered =>
        /\ versionedTables[TableName].historyTableName = ExpectedHistoryTable
        /\ autoCreateHistoryTables => ExpectedHistoryTable \in historyTables
    /\ historyTables \subseteq {ExpectedHistoryTable}
    /\ historyTableName(TableName) = ExpectedHistoryTable
    /\ history # {} => ExpectedHistoryTable \in historyTables
    /\ Succeeded(last, {"insert", "update", "delete", "rollback",
                        "getVersions", "getVersion"})
        => ExpectedHistoryTable \in historyTables

C20_Witness ==
    /\ historyTableSuffix = "_archive"
    /\ registered
    /\ versionedTables[TableName].historyTableName = "test_table_archive"
    /\ Succeeded(last, {"getVersions"})
    /\ Cardinality(history) = 2

\* C21: registerTable for a name that is already registered leaves one
\* binding for the name, holding the descriptor of this call; it leaves the
\* live rows, the history rows and their sequence as they were and, when
\* the history table exists, its name and its columns too, also when the
\* descriptor differs from the one the table was created from; registering
\* the same descriptor again changes nothing at all.
C21_ReRegistration ==
    [][last'.op = "registerTable" =>
        /\ DOMAIN versionedTables' = {TableName}
        /\ versionedTables'[TableName].table = last'.table
        /\ UNCHANGED <<live, history, seq>>
        /\ historyExists => UNCHANGED <<historyTables, historyColumns>>
        /\ (registered /\ versionedTables[TableName].table = last'.table)
            => UNCHANGED <<versionedTables, historyTables, historyColumns>>]_vars

C21_Witness ==
    /\ last.op = "registerTable" /\ last.table = users
    /\ historyColumns = historySchema(testTable)
    /\ Cardinality(history) = 2

\* the name is in the registry of the second instance
registeredOther == TableName \in DOMAIN otherVersionedTables

\* C22: registerTable on one instance leaves the registry of the other
\* instance as it was; while the second instance has not registered the
\* name itself, every insert, update and delete through it throws
\* NotRegisteredError and changes nothing, also after the first instance
\* registered the name and recorded versions; once it has registered the
\* name, its calls no longer throw NotRegisteredError.
C22_RegistryPerInstance ==
    [][/\ (last'.op = "registerTable" /\ "instance" \notin DOMAIN last')
            => otherVersionedTables' = otherVersionedTables
       /\ "instance" \in DOMAIN last' =>
            /\ versionedTables' = versionedTables
            /\ (last'.op # "registerTable" /\ ~registeredOther)
                => /\ last'.result = "NotRegisteredError"
                   /\ UNCHANGED <<live, history, seq>>
            /\ (last'.op # "registerTable" /\ registeredOther)
                => last'.result # "NotRegisteredError"]_vars

C22_Witness ==
    /\ registered /\ ~registeredOther
    /\ history # {} /\ live # {}
    /\ "instance" \in DOMAIN last
    /\ last.op = "update" /\ last.result = "NotRegisteredError"

\* C23: registerTable stores the binding for the name; with
\* autoCreateHistoryTables on, the history table exists when it returns
\* (created from this call's descriptor if it did not exist); with it off,
\* the call leaves the whole store as it was, so no history table exists
\* unless one was there before.
C23_AutoCreate ==
    [][last'.op = "registerTable" =>
        /\ TableName \in DOMAIN versionedTables'
        /\ versionedTables'[TableName] =
                [table |-> last'.table, historyTableName |-> ExpectedHistoryTable]
        /\ autoCreateHistoryTables =>
            /\ ExpectedHistoryTable \in historyTables'
            /\ ~historyExists => historyColumns' = historySchema(last'.table)
        /\ ~autoCreateHistoryTables =>
            UNCHANGED <<live, historyTables, historyColumns, history, seq>>]_vars

C23_Witness ==
    /\ last.op = "registerTable" /\ registered
    /\ ~autoCreateHistoryTables
    /\ historyTables = {}
    /\ live # {}

\* C24: the version a successful insert appends holds, for each column the
\* caller's value map names, the caller's value, and NULL for each column
\* the map omits; for an omitted id the inserted live row has the id the
\* store assigned while the Insert version has none.
C24_InsertRecordsArguments ==
    [][Succeeded(last', {"insert"}) =>
        /\ Cardinality(Appended) = 1
        /\ \A v \in Appended :
            /\ v.version_operation = "INSERT"
            /\ \A c \in Cols :
                v[c] = IF c \in DOMAIN last'.values THEN last'.values[c] ELSE Null(c)
            /\ "id" \notin DOMAIN last'.values
                => /\ v.id = NullId
                   /\ \E r \in live' \ live : r.id \in Ids /\ r.name = v.name]_vars

C24_Witness ==
    /\ Succeeded(last, {"insert"})
    /\ "id" \notin DOMAIN last.values
    /\ \E v \in history : v.version_operation = "INSERT" /\ v.id = NullId
    /\ \E r \in live : r.id \in Ids

\* the version a rollback call names
Target(c) == CHOOSE v \in history : v.version_id = c.versionId

\* C25: after every successful rollback, to whatever version of the
\* history table, getVersions with the call's predicate has exactly one
\* entry more than before and a live row satisfies the predicate.
C25_RollbackAddsEntry ==
    [][Succeeded(last', {"rollback"}) =>
        /\ Len(getVersions(history', last'.where))
            = Len(getVersions(history, last'.where)) + 1
        /\ liveSelect(live', last'.where) # {}]_vars

\* C25 (amended): the same, for a rollback to a version that equals the
\* predicate on each column the predicate names (a version of the record
\* the predicate selects).
C25_RollbackAddsEntrySameRecord ==
    [][(/\ Succeeded(last', {"rollback"})
        /\ Matches(Target(last'), last'.where)) =>
        /\ Len(getVersions(history', last'.where))
            = Len(getVersions(history, last'.where)) + 1
        /\ liveSelect(live', last'.where) # {}]_vars

C25_Witness ==
    /\ Succeeded(last, {"rollback"})
    /\ Matches(Target(last), last.where)
    /\ Len(getVersions(history, last.where)) = 3
    /\ \E r \in live : Matches(r, last.where) /\ Attributes(Target(last)) = r

\* C26: after every successful update, whatever its value map, getVersions
\* with the call's predicate has exactly one entry more than before.
C26_UpdateAddsEntry ==
    [][Succeeded(last', {"update"}) =>
        Len(getVersions(history', last'.where))
            = Len(getVersions(history, last'.where)) + 1]_vars

\* C26 (amended): the same, for an update whose value map gives no column
\* of the predicate a value other than the predicate's.
C26_UpdateAddsEntryStablePredicate ==
    [][(/\ Succeeded(last', {"update"})
        /\ \A c \in DOMAIN last'.values \cap DOMAIN last'.where :
                last'.values[c] = last'.where[c]) =>
        Len(getVersions(history', last'.where))
            = Len(getVersions(history, last'.where)) + 1]_vars

C26_Witness ==
    /\ Succeeded(last, {"update"})
    /\ DOMAIN last.values \cap DOMAIN last.where = {}
    /\ Len(getVersions(history, last.where)) = 3
    /\ \E v \in history : v.version_operation = "UPDATE" /\ Matches(v, last.values)

\* C27: a successful rollback keeps every history row, the target among
\* them, as it was and appends one row whose version_id is above every
\* earlier one and whose operation is UPDATE, whether the target is an
\* INSERT, an UPDATE or a DELETE version.
C27_RollbackVersionIsFresh ==
    [][Succeeded(last', {"rollback"}) =>
        /\ history \subseteq history'
        /\ Target(last') \in history'
        /\ Cardinality(Appended) = 1
        /\ \A v \in Appended :
            /\ v.version_operation = "UPDATE"
            /\ \A w \in history : w.version_id < v.version_id
            /\ Attributes(v) = Attributes(Target(last'))]_vars

C27_Witness ==
    /\ Succeeded(last, {"rollback"})
    /\ Target(last).version_operation = "DELETE"
    /\ \E v \in history :
        /\ v.version_operation = "UPDATE"
        /\ v.version_id > Target(last).version_id
        /\ Attributes(v) = Attributes(Target(last))

\* C28: rollback to an existing version with a predicate that no live row
\* satisfies (the record was never inserted, or was deleted and not
\* inserted again) fails with RecordNotFoundError and leaves the live
\* table and the history table as they were.
C28_RollbackNeedsLiveRow ==
    (registered /\ historyExists) =>
        \A where \in Predicates, versionId \in VersionIds :
            (/\ DOMAIN where # {}
             /\ getVersion(history, versionId) # {}
             /\ \A row \in live : ~Matches(row, where))
            => rollback(db, versionId, where) = Outcome(db, "RecordNotFoundError")

C28_Witness ==
    /\ last.op = "rollback"
    /\ last.result = "RecordNotFoundError"
    /\ live = {}
    /\ \E v \in history :
        /\ v.version_operation = "DELETE"
        /\ \A w \in history : w.version_id <= v.version_id

\* C29: when every call inserts a full row or addresses a record by its key
\* and no update writes the key column, in every reachable state each key
\* has a live row exactly when its entry with the highest version_id exists
\* and is not a DELETE, and the live row then equals that entry's columns.
C29_LiveMatchesLatestVersion ==
    \A k \in Ids :
        LET rows == liveSelect(live, keyPredicate(k))
            versions == getVersions(history, keyPredicate(k))
            latest == versions[Len(versions)]
        IN  /\ rows # {} <=>
                (versions # <<>> /\ latest.version_operation # "DELETE")
            /\ rows # {} => rows = {Attributes(latest)}

\* the entries of the statements run on the store
StoreSteps == {i \in DOMAIN trace : trace[i].step \in {"read", "write", "append"}}

Writes(k) == {i \in DOMAIN trace : trace[i].step = "write" /\ trace[i].key = k}

\* C30: with calls in flight at once, (1) no store statement of another
\* call falls between two store statements of one call; (2) a key's live row is what the
\* last write applied to the key left; (3) two calls that wrote the same key
\* have their versions in the order of their writes; (4) the version of an
\* update holds the live row its write left.
C30_CallsRunUninterrupted ==
    /\ \A i, j \in StoreSteps :
        (i < j /\ trace[i].call = trace[j].call)
        => \A m \in StoreSteps : (i < m /\ m < j) => trace[m].call = trace[i].call
    /\ \A k \in Ids :
        liveSelect(live, keyPredicate(k)) =
            IF Writes(k) = {} THEN {}
            ELSE {trace[Max(Writes(k))].row} \ {EmptyMap}
    /\ \A i, j \in DOMAIN trace :
        (/\ trace[i].step = "append" /\ trace[j].step = "append"
         /\ trace[i].key = trace[j].key)
        => \A wi \in Writes(trace[i].key), wj \in Writes(trace[j].key) :
            (trace[wi].call = trace[i].call /\ trace[wj].call = trace[j].call)
            => (wi < wj <=> trace[i].version_id < trace[j].version_id)
    /\ \A i \in DOMAIN trace :
        (trace[i].step = "append" /\ trace[i].op = "update")
        => /\ \E v \in history :
                /\ v.version_id = trace[i].version_id
                /\ v.version_operation = "UPDATE"
                /\ Attributes(v) = trace[i].row
           /\ \E w \in Writes(trace[i].key) :
                trace[w].call = trace[i].call /\ trace[w].row = trace[i].row

C30_Witness ==
    /\ \E f, g \in inFlight :
        /\ f.call < g.call /\ f.key = g.key
        /\ f.op = "update" /\ g.op = "delete"
        /\ f.pc = "await" /\ g.pc = "await"
    /\ \E i, j \in DOMAIN trace :
        /\ i < j /\ trace[i].key = trace[j].key
        /\ trace[i].step = "append" /\ trace[i].op = "update"
        /\ trace[j].step = "append" /\ trace[j].op = "delete"
        /\ trace[i].version_id < trace[j].version_id
        /\ liveSelect(live, keyPredicate(trace[i].key)) = {}

\* a step of the update path of rollback call f that goes on: the lookup
\* changes nothing, the write replaces the row found by the target's
\* attributes, the record step appends one UPDATE version holding them
RollbackProceeds(f) ==
    /\ \E g \in inFlight' : g.call = f.call
    /\ f.pc = "lookup" => UNCHANGED <<live, history>>
    /\ f.pc = "write" =>
        /\ live' = (live \ {f.current}) \cup {f.values}
        /\ history' = history
    /\ f.pc = "record" =>
        /\ live' = live /\ f.values \in live
        /\ history \subseteq history'
        /\ Cardinality(Appended) = 1
        /\ \A v \in Appended :
            /\ v.version_operation = "UPDATE"
            /\ Attributes(v) = f.values
            /\ \E t \in history :
                t.version_id = f.versionId /\ Attributes(t) = Attributes(v)

\* the update path of rollback call f ends by throwing, before any write
RollbackFails(f, results) ==
    /\ \A g \in inFlight' : g.call # f.call
    /\ f.pc \in {"lookup", "write"}
    /\ last'.op = "rollback" /\ last'.result \in results
    /\ UNCHANGED <<live, history, seq>>

InUpdatePath(f) == f.op = "rollback" /\ f.pc \in {"lookup", "write", "record"}

C32_RejectedWriteAppendsNothing ==
    registered =>
        /\ \A values \in ValueMaps :
            ~liveInsertOk(live, values)
            => insert(db, values) = Outcome(db, "StoreError")
        /\ \A values \in ValueMaps, where \in Predicates :
            (/\ DOMAIN where # {}
             /\ liveSelect(live, where) # {}
             /\ ~liveUpdateOk(live, values, where))
            => update(db, values, where) = Outcome(db, "StoreError")

C32_Witness ==
    /\ last.op \in {"insert", "update"}
    /\ last.result = "StoreError"
    /\ historyExists
    /\ live # {}
    /\ \E values \in ValueMaps :
        /\ "id" \in DOMAIN values /\ "name" \in DOMAIN values
        /\ \E r \in live : r.id = values["id"]
        /\ insert(db, values) = Outcome(db, "StoreError")
    /\ Cardinality(history) = Cardinality(live)

\* the rows of h2 that h1 lacks are one UPDATE version with attributes row
OneUpdateVersionMore(h1, h2, row) ==
    /\ h1 \subseteq h2
    /\ Cardinality(h2 \ h1) = 1
    /\ \A v \in h2 \ h1 : v.version_operation = "UPDATE" /\ Attributes(v) = row

\* C33: when a rollback of key k to a version of key k succeeds, the same
\* rollback run again right after it succeeds too and leaves the live table
\* as the first did, and each of the two appends one UPDATE version with
\* the target's attributes.
C33_RollbackTwice ==
    \A k \in Ids, versionId \in VersionIds :
        LET first == rollback(db, versionId, keyPredicate(k))
            second == rollback(first.db, versionId, keyPredicate(k))
            target == CHOOSE v \in getVersion(history, versionId) : TRUE
        IN  (/\ getVersion(history, versionId) # {}
             /\ target.id = k
             /\ first.result = "ok")
            => /\ second.result = "ok"
               /\ second.db.live = first.db.live
               /\ Attributes(target) \in first.db.live
               /\ OneUpdateVersionMore(history, first.db.history, Attributes(target))
               /\ OneUpdateVersionMore(first.db.history, second.db.history,
                                       Attributes(target))

C33_Witness ==
    /\ Succeeded(last, {"rollback"})
    /\ Target(last).id = last.where["id"]
    /\ Attributes(Target(last)) \in live
    /\ \E v, w \in history :
        /\ Target(last).version_id < v.version_id /\ v.version_id < w.version_id
        /\ v.version_operation = "UPDATE" /\ w.version_operation = "UPDATE"
        /\ Attributes(v) = Attributes(Target(last))
        /\ Attributes(w) = Attributes(Target(last))
        /\ \A x \in history : x.version_id <= w.version_id
        /\ \E u \in history :
            /\ Target(last).version_id < u.version_id
            /\ u.version_id < v.version_id
            /\ u.id = v.id /\ u.name # v.name
    /\ rollback(db, last.versionId, last.where).result = "ok"
    /\ rollback(db, last.versionId, last.where).db.live = live

\* C34: for a live row of key k whose latest version L has a value in every
\* column, every successful update of the name column followed by rollback
\* to L leaves the live table as before the update, and getVersions(k) is
\* then as before followed by the update's and the rollback's version.
C34_UpdateRollbackRoundTrip ==
    \A k \in Ids, n \in Names :
        LET versions == getVersions(history, keyPredicate(k))
            L == versions[Len(versions)]
            updated == update(db, mkMap(NullId, n), keyPredicate(k))
            restored == rollback(updated.db, L.version_id, keyPredicate(k))
            after == getVersions(restored.db.history, keyPredicate(k))
        IN  (/\ liveSelect(live, keyPredicate(k)) # {}
             /\ versions # <<>>
             /\ L.id # NullId /\ L.name # NullName
             /\ updated.result = "ok")
            => /\ restored.result = "ok"
               /\ restored.db.live = live
               /\ Len(after) = Len(versions) + 2
               /\ SubSeq(after, 1, Len(versions)) = versions
               /\ after[Len(versions) + 1].version_operation = "UPDATE"
               /\ after[Len(versions) + 1].name = n
               /\ after[Len(versions) + 2].version_operation = "UPDATE"
               /\ Attributes(after[Len(versions) + 2]) = Attributes(L)

\* C35: a version is found by its version_id whatever key it was recorded
\* for: getVersion returns it, and rollback with a predicate selecting
\* another key does not throw VersionNotFoundError; when it succeeds, the
\* row the predicate selected holds the version's attributes, key included.
C35_VersionIdAlone ==
    (registered /\ historyExists) =>
        \A v \in history, k \in Ids :
            LET o == rollback(db, v.version_id, keyPredicate(k))
                selected == liveSelect(live, keyPredicate(k))
            IN  v.id # k =>
                /\ getVersion(history, v.version_id) = {v}
                /\ o.result # "VersionNotFoundError"
                /\ o.result = "ok" =>
                    /\ selected # {}
                    /\ o.db.live = (live \ selected) \cup {Attributes(v)}
                /\ (/\ selected # {}
                    /\ v.id \in Ids /\ v.name \in Names
                    /\ \A r \in live : r.id # v.id)
                   => o.result = "ok"

C35_Witness ==
    /\ Succeeded(last, {"rollback"})
    /\ Target(last).id # last.where["id"]
    /\ Attributes(Target(last)) \in live
    /\ \A r \in live : r.id # last.where["id"]
    /\ getVersionResult(last.versionId) = "ok"

\* C36: registerTable with a table one of whose column objects has no name
\* throws ConfigurationError and leaves the registry and the store's
\* history tables as they were.
C36_NamelessColumnRejected ==
    [][(/\ last'.op = "registerTable"
        /\ \E i \in DOMAIN last'.table : ~hasName(last'.table[i]))
        => /\ last'.result = "ConfigurationError"
           /\ UNCHANGED <<versionedTables, historyTables, historyColumns>>]_vars

ColumnNames(schema) == [i \in DOMAIN schema |-> schema[i].name]

\* C37: the history table a registration creates has the named columns of
\* the registered table, in their order, followed by version_id,
\* version_created_at and version_operation, and no other column; and
\* version_operation takes INSERT, UPDATE and DELETE only.
C37_HistoryLayout ==
    [][(last'.op = "registerTable" /\ ~historyExists /\ historyExists')
        => /\ ColumnNames(historyColumns') =
                ColumnNames(columnDefs(last'.table))
                \o <<"version_id", "version_created_at", "version_operation">>
           /\ \A operation \in VersionOperation \cup {"REPLACE"} :
                historyInsertOk(EmptyMap, operation)'
                    <=> operation \in VersionOperation]_vars

\* the storage classes in the order they are tried, each with the data type
\* and the column type that declare it
StorageClasses ==
    << [class |-> "INTEGER", dataType |-> "integer", columnType |-> "SQLiteInteger"],
       [class |-> "REAL", dataType |-> "real", columnType |-> "SQLiteReal"],
       [class |-> "TEXT", dataType |-> "text", columnType |-> "SQLiteText"],
       [class |-> "BLOB", dataType |-> "blob", columnType |-> "SQLiteBlob"] >>

Declared(column) ==
    {i \in DOMAIN StorageClasses :
        \/ field(column, "dataType") = StorageClasses[i].dataType
        \/ field(column, "columnType") = StorageClasses[i].columnType}

\* C38: the history table a registration creates has, for each named column
\* of the registered table, one column whose type is one of INTEGER, REAL,
\* TEXT and BLOB: the first of these, in this order, that the column's data
\* type or column type declares, and TEXT when neither declares one.
C38_StorageClass ==
    [][(last'.op = "registerTable" /\ ~historyExists /\ historyExists')
        => LET named == columns(last'.table)
           IN  /\ Len(historyColumns') = 3 + Len(named)
               /\ \A i \in DOMAIN named :
                    /\ historyColumns'[3 + i].name = named[i].name
                    /\ historyColumns'[3 + i].type =
                        IF Declared(named[i]) = {} THEN "TEXT"
                        ELSE StorageClasses[Min(Declared(named[i]))].class]_vars

C38_Witness ==
    /\ last.op = "registerTable" /\ last.result = "ok"
    /\ historyExists
    /\ last.table[2] = mkColumn("name", "blob", "SQLiteReal")
    /\ Len(historyColumns) = 5
    /\ historyColumns[5] = [name |-> "name", type |-> "REAL"]
    /\ sqliteType(mkColumn("name", Undefined, Undefined)) = "TEXT"
    /\ sqliteType(mkColumn("name", "number", "SQLiteCustom")) = "TEXT"

====
